---- MODULE Spec2Model ----
(***************************************************************************)
(* Model of the movie-planner client: the Auth screen (src/app/page.tsx,   *)
(* HomePage) and the Discovery and Account screens                         *)
(* (src/app/discover/page.tsx, DiscoverPage and AccountPage).              *)
(*                                                                         *)
(* One step of the model is one run of JavaScript between two suspension   *)
(* points: a UI event handler up to its first await, or the continuation   *)
(* of a handler once its fetch has settled.  Effects that React runs on    *)
(* mount are part of the step that mounts the screen.  Navigation is the   *)
(* navigation the code performs (router.push / router.replace).            *)
(* Text is a sequence of one-character strings, so that trim, toLowerCase  *)
(* and includes are computed and not assumed.                              *)
(***************************************************************************)
EXTENDS Integers, Sequences, FiniteSets, TLC

VARIABLES
    storage,   \* window.localStorage: the slots mp_sessionToken, mp_username
    route,     \* the mounted screen: "auth", "discover" or "account"
    net,       \* requests in flight, in the order they were issued
    ev,        \* the handler step that produced the current state
    home,      \* useState fields of HomePage
    disc,      \* useState fields of DiscoverPage
    acct       \* useState fields of AccountPage

vars == <<storage, route, net, ev, home, disc, acct>>

-----------------------------------------------------------------------------
(* Bounds *)

MaxPending == 2      \* requests in flight at once
CatalogSize == 2     \* catalog entries shown on Discovery
MaxMovies == 2       \* records in a list response
MaxRatings == 2      \* summaries in a ratings response
MaxText == 2         \* characters in a searched text
RoundedSlack == 2    \* how far a roundedRating may lie outside 1..5

-----------------------------------------------------------------------------
(* Values *)

NULL == "null"
NoItem == <<>>                 \* getItem() returning null
Item(v) == <<v>>               \* a stored value
Absent == <<>>                 \* a key left out of a JSON body
Null == <<"null">>             \* a key whose value is null
Val(v) == <<"val", v>>         \* a key with a value

Tokens == {"t1", "t2"}

REQUIRED_MSG == "Username and password are required."
NO_TOKEN_MSG == "No session token returned from server."
CREATED_MSG == "Account created. Please log in."
SERVER_MSG == "server said no"          \* the error field of an error body
THROWN_MSG == "Failed to fetch"         \* the message of a thrown error
HTTP_MSG == "HTTP 500"                  \* the message of Error(`HTTP ${status}`)

-----------------------------------------------------------------------------
(* Text *)

IsSpace(c) == c = " "

RECURSIVE TrimStart(_)
TrimStart(s) ==
    IF s = <<>> THEN <<>>
    ELSE IF IsSpace(Head(s)) THEN TrimStart(Tail(s)) ELSE s

RECURSIVE TrimEnd(_)
TrimEnd(s) ==
    IF s = <<>> THEN <<>>
    ELSE IF IsSpace(s[Len(s)]) THEN TrimEnd(SubSeq(s, 1, Len(s) - 1)) ELSE s

Trim(s) == TrimEnd(TrimStart(s))

UpperToLower ==
    [c \in {"A", "B", "C", "D", "E", "H", "L", "N", "O", "P", "T", "V", "W"} |->
        CASE c = "A" -> "a" [] c = "B" -> "b" [] c = "C" -> "c" [] c = "D" -> "d"
          [] c = "E" -> "e" [] c = "H" -> "h" [] c = "L" -> "l" [] c = "N" -> "n"
          [] c = "O" -> "o" [] c = "P" -> "p" [] c = "T" -> "t" [] c = "V" -> "v"
          [] c = "W" -> "w"]

LowerChar(c) == IF c \in DOMAIN UpperToLower THEN UpperToLower[c] ELSE c

ToLowerCase(s) == [i \in 1..Len(s) |-> LowerChar(s[i])]

Includes(s, q) ==
    \E i \in 0..(Len(s) - Len(q)) : SubSeq(s, i + 1, i + Len(q)) = q

-----------------------------------------------------------------------------
(* Persistent storage *)

EmptyStorage == [token |-> NoItem, user |-> NoItem]

\* a login that stores the token and leaves the username slot alone
StoreSessionTokenOnly(sessionToken, trimmedUser) ==
    [token |-> Item(sessionToken), user |-> NoItem]

\* the two setItem() calls of a successful login
StoreSession(sessionToken, trimmedUser) ==
    [token |-> Item(sessionToken), user |-> Item(trimmedUser)]

\* `token && user` on two getItem() results: null and "" are falsy
HasSession(st) ==
    /\ st.token # NoItem /\ st.token[1] # ""
    /\ st.user # NoItem /\ st.user[1] # <<>>

-----------------------------------------------------------------------------
(* Screens *)

HomeInit ==
    [authMode |-> "login", username |-> <<>>, password |-> <<>>,
     authLoading |-> FALSE, authError |-> NULL, infoMessage |-> NULL]

DiscInit ==
    [sessionToken |-> NULL, currentUser |-> <<>>, error |-> NULL,
     busyId |-> NULL, ratings |-> <<>>]

AcctInit ==
    [sessionToken |-> NULL, currentUser |-> <<>>, movies |-> <<>>,
     loadingMovies |-> FALSE, moviesError |-> NULL, filter |-> "ALL",
     title |-> <<>>, status |-> "PLAN_TO_WATCH", review |-> <<>>,
     rating |-> Null, posterUrl |-> <<>>, searchQuery |-> <<>>]

PageOf(r) == CASE r = "auth" -> "home" [] r = "discover" -> "disc" [] r = "account" -> "acct"

\* a request: what was sent and what its continuation closed over
\* (the token it used, and for the Auth form the mode and the trimmed
\* username at the time of the submit); late: a list fetch issued after
\* this one by the same screen has already been answered with success
Req(kind, page, token, user) ==
    [kind |-> kind, page |-> page, live |-> TRUE, token |-> token, user |-> user,
     id |-> NULL, late |-> FALSE]

\* a request of a Discovery card: its continuation closes over the movie
CardReq(kind, token, movie) ==
    [Req(kind, "disc", token, <<>>) EXCEPT !.id = movie.id]

RatingsReq == Req("ratings", "disc", NULL, <<>>)
ListReq(token) == Req("list", "acct", token, <<>>)

\* the continuations of an unmounted screen keep running, on a dead instance
Orphan(n, page) ==
    [i \in 1..Len(n) |-> IF n[i].page = page THEN [n[i] EXCEPT !.live = FALSE] ELSE n[i]]

World(r, h, d, a, n) == [route |-> r, home |-> h, disc |-> d, acct |-> a, net |-> n]

\* HomePage mounts; its effect redirects a visitor who has a session
MountHome(st, n) ==
    IF HasSession(st)
    THEN \* router.replace("/discover"): HomePage unmounts, DiscoverPage mounts
         World("discover", HomeInit,
               [DiscInit EXCEPT !.sessionToken = st.token[1], !.currentUser = st.user[1]],
               AcctInit, Append(n, RatingsReq))
    ELSE World("auth", HomeInit, DiscInit, AcctInit, n)

\* DiscoverPage mounts: the auth guard and the ratings fetch both run
MountDiscover(st, n) ==
    IF ~HasSession(st)
    THEN \* router.replace("/"): the ratings fetch is left to a dead instance
         World("auth", HomeInit, DiscInit, AcctInit,
               Orphan(Append(n, RatingsReq), "disc"))
    ELSE World("discover", HomeInit,
               [DiscInit EXCEPT !.sessionToken = st.token[1], !.currentUser = st.user[1]],
               AcctInit, Append(n, RatingsReq))

\* the redirect of the auth guard left out
MountAccountNoRedirect(st, n) ==
    IF ~HasSession(st)
    THEN World("account", HomeInit, DiscInit, AcctInit, n)
    ELSE World("account", HomeInit, DiscInit,
               [AcctInit EXCEPT !.sessionToken = st.token[1], !.currentUser = st.user[1],
                                !.loadingMovies = TRUE],
               Append(n, ListReq(st.token[1])))

\* AccountPage mounts: the auth guard, then the effect on sessionToken
\* calls fetchMovies
MountAccount(st, n) ==
    IF ~HasSession(st)
    THEN World("auth", HomeInit, DiscInit, AcctInit, n)
    ELSE World("account", HomeInit, DiscInit,
               [AcctInit EXCEPT !.sessionToken = st.token[1], !.currentUser = st.user[1],
                                !.loadingMovies = TRUE],
               Append(n, ListReq(st.token[1])))

\* router.push(target) / router.replace(target) from the screen at r
GoTo(target, st, r, h, d, a, n) ==
    IF target = r THEN World(r, h, d, a, n)
    ELSE LET left == Orphan(n, PageOf(r)) IN
         CASE target = "auth" -> MountHome(st, left)
           [] target = "discover" -> MountDiscover(st, left)
           [] target = "account" -> MountAccount(st, left)

Apply(w) ==
    /\ route' = w.route
    /\ home' = w.home
    /\ disc' = w.disc
    /\ acct' = w.acct
    /\ net' = w.net

\* op: the handler; kind: the request it is about; outcome: how it went;
\* live: whether the screen that issued the request is still mounted
Body(title, status, rating, review, imageUrl) ==
    [title |-> title, status |-> status, rating |-> rating, review |-> review,
     imageUrl |-> imageUrl]

NoBody == Body(Absent, NULL, Absent, Absent, Absent)

Event(op, kind, outcome, live) ==
    [op |-> op, kind |-> kind, outcome |-> outcome, live |-> live,
     id |-> NULL, body |-> NoBody, token |-> NULL, input |-> NULL, late |-> FALSE]

\* the step that handled the answer to a login or register request; token
\* is the sessionToken field of the answer's body (NULL: no such field)
AuthAnswer(kind, outcome, live, tok) ==
    [op |-> "response", kind |-> kind, outcome |-> outcome, live |-> live,
     id |-> NULL, body |-> NoBody, token |-> tok, input |-> NULL, late |-> FALSE]

\* a step that sent a request: id is the id in its URL, body its JSON body
Sending(op, kind, id, body) ==
    [op |-> op, kind |-> kind, outcome |-> "sent", live |-> TRUE,
     id |-> id, body |-> body, token |-> NULL, input |-> NULL, late |-> FALSE]

\* the event of a step that asked the user: input is the answer given
\* (to confirm(), or to the rating prompt of a mark-watched flow)
Asked(event, input) == [event EXCEPT !.input = input]

Remove(s, i) == SubSeq(s, 1, i - 1) \o SubSeq(s, i + 1, Len(s))

-----------------------------------------------------------------------------
(* Initial states: a visitor opens any of the three routes, with or        *)
(* without a session left by an earlier visit.                             *)

UserInputs == {<<>>, <<" ">>, <<"u">>, <<" ", "u">>}
PassInputs == {<<>>, <<" ">>, <<"p">>}

Init ==
    /\ storage \in {EmptyStorage, [token |-> Item("t1"), user |-> Item(<<"u">>)]}
    /\ ev = Event("open", NULL, NULL, TRUE)
    /\ \E entry \in {"auth", "discover", "account"} :
          LET w == CASE entry = "auth" -> MountHome(storage, <<>>)
                     [] entry = "discover" -> MountDiscover(storage, <<>>)
                     [] entry = "account" -> MountAccount(storage, <<>>)
          IN  /\ route = w.route
              /\ home = w.home
              /\ disc = w.disc
              /\ acct = w.acct
              /\ net = w.net

-----------------------------------------------------------------------------
(* HomePage *)

SetUsername(v) ==
    /\ route = "auth"
    /\ home' = [home EXCEPT !.username = v]
    /\ ev' = Event("setUsername", NULL, NULL, TRUE)
    /\ UNCHANGED <<storage, route, net, disc, acct>>

SetPassword(v) ==
    /\ route = "auth"
    /\ home' = [home EXCEPT !.password = v]
    /\ ev' = Event("setPassword", NULL, NULL, TRUE)
    /\ UNCHANGED <<storage, route, net, disc, acct>>

ToggleAuthMode ==
    /\ route = "auth"
    /\ home' = [home EXCEPT !.authMode = IF @ = "login" THEN "register" ELSE "login"]
    /\ ev' = Event("toggle", NULL, NULL, TRUE)
    /\ UNCHANGED <<storage, route, net, disc, acct>>

\* && written for ||
FieldsMissingBoth(trimmedUser, trimmedPass) == trimmedUser = <<>> /\ trimmedPass = <<>>

\* !trimmedUser || !trimmedPass
FieldsMissing(trimmedUser, trimmedPass) == trimmedUser = <<>> \/ trimmedPass = <<>>

\* handleAuthSubmit up to its first await; the submit button is disabled
\* while authLoading
HandleAuthSubmit ==
    /\ route = "auth"
    /\ ~home.authLoading
    /\ LET trimmedUser == Trim(home.username)
           trimmedPass == Trim(home.password)
       IN  IF FieldsMissing(trimmedUser, trimmedPass)
           THEN /\ home' = [home EXCEPT !.authError = REQUIRED_MSG, !.infoMessage = NULL]
                /\ net' = net
                /\ ev' = Event("submit", home.authMode, "invalid", TRUE)
           ELSE /\ Len(net) < MaxPending
                /\ home' = [home EXCEPT !.authError = NULL, !.infoMessage = NULL,
                                        !.authLoading = TRUE]
                /\ net' = Append(net, Req(home.authMode, "home", NULL, trimmedUser))
                /\ ev' = Sending("submit", home.authMode, NULL, NoBody)
    /\ UNCHANGED <<storage, route, disc, acct>>

Outcomes == {"ok", "401", "err", "throw"}

\* data?.error || (mode-specific default)
AuthFailureMsg(kind, hasError) ==
    IF hasError THEN SERVER_MSG
    ELSE IF kind = "login" THEN "Login failed" ELSE "Registration failed"

\* the token check left out
TokenMissingNever(tok) == FALSE

\* the register branch left out, so that a register falls through to the
\* login path
TreatedAsRegisterNever(kind) == FALSE

\* !data.sessionToken
TokenMissing(tok) == tok \in {NULL, ""}

\* authMode === "register", on the mode the submit closed over
TreatedAsRegister(kind) == kind = "register"

\* the rest of handleAuthSubmit, run when the fetch of request i settles:
\* outcome is the status class, hasError whether the body has an error
\* field, tok the body's sessionToken (NULL when there is none)
\* a failure that also falls back to the login view
AuthFailedToLogin(h, msg) == [h EXCEPT !.authError = msg, !.authMode = "login"]

\* setAuthError(msg) of a failed login or register: the view mode stays
AuthFailed(h, msg) == [h EXCEPT !.authError = msg]

AuthRespond(i, outcome, hasError, tok) ==
    /\ i \in 1..Len(net)
    /\ net[i].kind \in {"login", "register"}
    /\ LET r == net[i]
           rest == Remove(net, i)
           settled(h) == IF r.live THEN [h EXCEPT !.authLoading = FALSE] ELSE home
       IN  /\ ev' = AuthAnswer(r.kind, outcome, r.live, tok)
           /\ CASE outcome = "throw" ->
                    /\ home' = settled(AuthFailed(home, THROWN_MSG))
                    /\ net' = rest
                    /\ UNCHANGED <<storage, route, disc, acct>>
                [] outcome \in {"401", "err"} ->
                    /\ home' = settled(AuthFailed(home, AuthFailureMsg(r.kind, hasError)))
                    /\ net' = rest
                    /\ UNCHANGED <<storage, route, disc, acct>>
                [] outcome = "ok" /\ TreatedAsRegister(r.kind) ->
                    /\ home' = settled([home EXCEPT !.authMode = "login",
                                                    !.infoMessage = CREATED_MSG])
                    /\ net' = rest
                    /\ UNCHANGED <<storage, route, disc, acct>>
                [] outcome = "ok" /\ ~TreatedAsRegister(r.kind) /\ TokenMissing(tok) ->
                    /\ home' = settled([home EXCEPT !.authError = NO_TOKEN_MSG])
                    /\ net' = rest
                    /\ UNCHANGED <<storage, route, disc, acct>>
                [] outcome = "ok" /\ ~TreatedAsRegister(r.kind) /\ ~TokenMissing(tok) ->
                    /\ storage' = StoreSession(tok, r.user)
                    /\ Apply(GoTo("discover", storage', route,
                                  settled(home), disc, acct, rest))

-----------------------------------------------------------------------------
(* Numbers typed into a prompt.  A JavaScript number is held in tenths     *)
(* (3 is 30, 2.5 is 25) so that a fraction typed by the user is a value.   *)

Num(n) == n * 10

DigitVal ==
    [c \in {"0", "1", "2", "3", "4", "5", "6", "7", "8", "9"} |->
        CASE c = "0" -> 0 [] c = "1" -> 1 [] c = "2" -> 2 [] c = "3" -> 3
          [] c = "4" -> 4 [] c = "5" -> 5 [] c = "6" -> 6 [] c = "7" -> 7
          [] c = "8" -> 8 [] c = "9" -> 9]

IsDigits(s) == Len(s) > 0 /\ \A i \in 1..Len(s) : s[i] \in DOMAIN DigitVal

RECURSIVE DigitsValue(_)
DigitsValue(s) ==
    IF s = <<>> THEN 0
    ELSE 10 * DigitsValue(SubSeq(s, 1, Len(s) - 1)) + DigitVal[s[Len(s)]]

NaN == [nan |-> TRUE, tenths |-> 0]

\* Number(text) for decimal literals with at most one fractional digit;
\* every other text is NaN
Number(s) ==
    IF IsDigits(s) THEN [nan |-> FALSE, tenths |-> Num(DigitsValue(s))]
    ELSE IF /\ Len(s) >= 3
            /\ s[Len(s) - 1] = "."
            /\ IsDigits(SubSeq(s, 1, Len(s) - 2))
            /\ IsDigits(<<s[Len(s)]>>)
         THEN [nan |-> FALSE,
               tenths |-> Num(DigitsValue(SubSeq(s, 1, Len(s) - 2))) + DigitVal[s[Len(s)]]]
         ELSE NaN

-----------------------------------------------------------------------------
(* DiscoverPage *)

INCEPTION == <<"I", "n", "c", "e", "p", "t", "i", "o", "n">>
THE_DARK_KNIGHT ==
    <<"T", "h", "e", " ", "D", "a", "r", "k", " ", "K", "n", "i", "g", "h", "t">>
LA_LA_LAND == <<"L", "a", " ", "L", "a", " ", "L", "a", "n", "d">>
SPIRITED_AWAY == <<"S", "p", "i", "r", "i", "t", "e", "d", " ", "A", "w", "a", "y">>

DISCOVER_MOVIES ==
    <<[id |-> "disc-1", title |-> INCEPTION],
      [id |-> "disc-2", title |-> THE_DARK_KNIGHT],
      [id |-> "disc-3", title |-> LA_LA_LAND],
      [id |-> "disc-4", title |-> SPIRITED_AWAY]>>

\* the catalog entries the model clicks on
Catalog == {DISCOVER_MOVIES[i] : i \in 1..CatalogSize}

Cancelled == <<>>          \* window.prompt() returning null
Typed(s) == <<s>>          \* window.prompt() returning the text s

RatingInputs ==
    {Cancelled, Typed(<<>>), Typed(<<"3">>), Typed(<<" ", "5">>), Typed(<<"9">>),
     Typed(<<"x">>), Typed(<<"2", ".", "5">>)}

ReviewInputs == {Cancelled, Typed(<<" ">>), Typed(<<"o", "k">>)}

\* reviewText.trim() || null
ReviewField(text) == IF Trim(text) = <<>> THEN Null ELSE Val(Trim(text))

\* ratingValue of DiscoverPage.markWatched after the rating prompt
DiscRatingValue(ratingInput) ==
    IF ratingInput # Cancelled /\ Trim(ratingInput[1]) # <<>>
    THEN LET parsed == Number(Trim(ratingInput[1])) IN
         IF ~parsed.nan /\ parsed.tenths >= Num(1) /\ parsed.tenths <= Num(5)
         THEN Val(parsed.tenths)
         ELSE Null
    ELSE Null

\* DiscoverPage.handleLogout: both slots are removed, then router.push("/")
DiscLogout(n, h, d, a) ==
    /\ storage' = EmptyStorage
    /\ Apply(GoTo("auth", storage', route, h, d, a, n))

\* the Log out button of DiscoverPage
DiscHandleLogout ==
    /\ route = "discover"
    /\ DiscLogout(net, home, disc, acct)
    /\ ev' = Event("logout", NULL, NULL, TRUE)

\* the nav buttons of the two signed-in screens
Navigate(target) ==
    /\ route \in {"discover", "account"}
    /\ target \in {"discover", "account"}
    /\ target # route => Len(net) < MaxPending
    /\ Apply(GoTo(target, storage, route, home, disc, acct, net))
    /\ ev' = Event("navigate", NULL, target, TRUE)
    /\ UNCHANGED storage

\* both buttons of a card are disabled without a session and while the
\* card is the busy one
CardEnabled(movie) == disc.sessionToken # NULL /\ disc.busyId # movie.id

\* addToList up to its await
AddToList(movie) ==
    /\ route = "discover"
    /\ CardEnabled(movie)
    /\ Len(net) < MaxPending
    /\ disc' = [disc EXCEPT !.error = NULL, !.busyId = movie.id]
    /\ net' = Append(net, CardReq("add", disc.sessionToken, movie))
    /\ ev' = Sending("addToList", "add", NULL,
                     Body(Val(movie.title), "PLAN_TO_WATCH", Absent, Absent, Absent))
    /\ UNCHANGED <<storage, route, home, acct>>

\* DiscoverPage.markWatched up to its await: the two prompts, then the POST
DiscMarkWatched(movie, ratingInput, reviewInput) ==
    /\ route = "discover"
    /\ CardEnabled(movie)
    /\ Len(net) < MaxPending
    /\ LET ratingValue == DiscRatingValue(ratingInput)
           reviewText == IF reviewInput # Cancelled THEN reviewInput[1] ELSE <<>>
       IN  /\ disc' = [disc EXCEPT !.error = NULL, !.busyId = movie.id]
           /\ net' = Append(net, CardReq("watch", disc.sessionToken, movie))
           /\ ev' = Asked(Sending("markWatched", "watch", NULL,
                                  Body(Val(movie.title), "HAVE_WATCHED", ratingValue,
                                       ReviewField(reviewText), Absent)),
                          ratingInput)
    /\ UNCHANGED <<storage, route, home, acct>>

\* the busy indicator left as it is
ClearBusyNever(d) == d

\* finally { setBusyId(null) }
ClearBusy(d) == [d EXCEPT !.busyId = NULL]

\* the rest of addToList / markWatched once the POST has settled
DiscRespond(i, outcome) ==
    /\ i \in 1..Len(net)
    /\ net[i].kind \in {"add", "watch"}
    /\ LET r == net[i]
           rest == Remove(net, i)
           \* the finally block, on a mounted instance only
           settled(d) == IF r.live THEN ClearBusy(d) ELSE disc
       IN  /\ ev' = Event("response", r.kind, outcome, r.live)
           /\ CASE outcome = "401" ->
                    DiscLogout(rest, home, settled(disc), acct)
                [] outcome = "err" ->
                    /\ disc' = settled([disc EXCEPT !.error = HTTP_MSG])
                    /\ net' = rest
                    /\ UNCHANGED <<storage, route, home, acct>>
                [] outcome = "throw" ->
                    /\ disc' = settled([disc EXCEPT !.error = THROWN_MSG])
                    /\ net' = rest
                    /\ UNCHANGED <<storage, route, home, acct>>
                [] outcome = "ok" ->
                    /\ disc' = settled(disc)
                    /\ net' = rest
                    /\ UNCHANGED <<storage, route, home, acct>>

\* a RatingSummary of a /ratings body
Summary(title, roundedRating, ratingCount) ==
    [title |-> title, roundedRating |-> roundedRating, ratingCount |-> ratingCount]

NoSummary == <<>>

\* the ratingCount check left out
GetGlobalSummaryAnyCount(ratings, title) ==
    LET hits == {i \in 1..Len(ratings) : ratings[i].title = title} IN
    IF hits = {} THEN NoSummary
    ELSE <<ratings[CHOOSE i \in hits : \A j \in hits : i <= j]>>

\* getGlobalSummary: the first summary with the title, unless it counts
\* no ratings
GetGlobalSummary(ratings, title) ==
    LET hits == {i \in 1..Len(ratings) : ratings[i].title = title} IN
    IF hits = {} THEN NoSummary
    ELSE LET match == ratings[CHOOSE i \in hits : \A j \in hits : i <= j] IN
         IF match.ratingCount = 0 THEN NoSummary ELSE <<match>>

FILLED == "filled star"
EMPTY == "empty star"

\* String.prototype.repeat
Repeat(glyph, count) == [i \in 1..count |-> glyph]

Max(a, b) == IF a >= b THEN a ELSE b
Min(a, b) == IF a <= b THEN a ELSE b

\* the lower clamp left out
RenderStarsNoFloor(roundedRating) ==
    LET r == Min(5, roundedRating)
        full == Repeat(FILLED, r)
        empty == Repeat(EMPTY, 5 - r)
    IN  full \o empty

\* renderStars of DiscoverPage
RenderStars(roundedRating) ==
    LET r == Max(1, Min(5, roundedRating))
        full == Repeat(FILLED, r)
        empty == Repeat(EMPTY, 5 - r)
    IN  full \o empty

\* the rating badge of a card: none, or the stars and the count shown
Badge(ratings, movie) ==
    LET global == GetGlobalSummary(ratings, movie.title) IN
    IF global = NoSummary THEN <<>>
    ELSE <<[stars |-> RenderStars(global[1].roundedRating),
            ratingCount |-> global[1].ratingCount]>>

\* the rest of fetchRatings once GET /ratings has settled: only a success
\* response is used, everything else is dropped
RatingsRespond(i, outcome, data) ==
    /\ i \in 1..Len(net)
    /\ net[i].kind = "ratings"
    /\ LET r == net[i] IN
       /\ ev' = Event("response", "ratings", outcome, r.live)
       /\ disc' = IF outcome = "ok" /\ r.live THEN [disc EXCEPT !.ratings = data] ELSE disc
       /\ net' = Remove(net, i)
    /\ UNCHANGED <<storage, route, home, acct>>

-----------------------------------------------------------------------------
(* AccountPage *)

LOGIN_FIRST_MSG == "Please log in first."

\* a Movie of a /movies body
Movie(id, title, status, rating, review) ==
    [id |-> id, title |-> title, status |-> status, rating |-> rating, review |-> review]

StatusText(status) ==
    CASE status = "PLAN_TO_WATCH" ->
            <<"P", "L", "A", "N", "_", "T", "O", "_", "W", "A", "T", "C", "H">>
      [] status = "HAVE_WATCHED" ->
            <<"H", "A", "V", "E", "_", "W", "A", "T", "C", "H", "E", "D">>

\* statusFiltered
StatusFiltered(movies, filter) ==
    IF filter = "ALL" THEN movies
    ELSE LET keep(m) == m.status = filter IN SelectSeq(movies, keep)

\* a search that forgets the review text
MatchesSearchNoReview(m, searchQuery) ==
    LET q == ToLowerCase(Trim(searchQuery)) IN
    IF q = <<>> THEN TRUE
    ELSE LET inTitle == Includes(ToLowerCase(m.title), q)
             inStatus == Includes(ToLowerCase(StatusText(m.status)), q)
         IN  inTitle \/ inStatus

\* the predicate of filteredMovies
MatchesSearch(m, searchQuery) ==
    LET q == ToLowerCase(Trim(searchQuery)) IN
    IF q = <<>> THEN TRUE
    ELSE LET inTitle == Includes(ToLowerCase(m.title), q)
             inStatus == Includes(ToLowerCase(StatusText(m.status)), q)
             inReview == Includes(ToLowerCase(IF m.review = Null THEN <<>> ELSE m.review[2]), q)
         IN  inTitle \/ inStatus \/ inReview

\* filteredMovies
FilteredMovies(movies, filter, searchQuery) ==
    LET keep(m) == MatchesSearch(m, searchQuery) IN
    SelectSeq(StatusFiltered(movies, filter), keep)

\* the records that have a row, and so buttons, on the screen
Shown == IF acct.currentUser = <<>> THEN {}
         ELSE LET f == FilteredMovies(acct.movies, acct.filter, acct.searchQuery)
              IN  {f[i] : i \in 1..Len(f)}

FormShown == route = "account" /\ acct.currentUser # <<>>

SetField(name, field, v) ==
    /\ FormShown
    /\ acct' = [acct EXCEPT ![field] = v]
    /\ ev' = Event(name, NULL, NULL, TRUE)
    /\ UNCHANGED <<storage, route, net, home, disc>>

SetTitle(v) == SetField("setTitle", "title", v)
SetPosterUrl(v) == SetField("setPosterUrl", "posterUrl", v)
SetStatus(v) == SetField("setStatus", "status", v)
\* the rating select and the review box exist only for HAVE_WATCHED
SetRating(v) == acct.status = "HAVE_WATCHED" /\ SetField("setRating", "rating", v)
SetReview(v) == acct.status = "HAVE_WATCHED" /\ SetField("setReview", "review", v)

SetFilter(f) ==
    /\ route = "account"
    /\ acct' = [acct EXCEPT !.filter = f]
    /\ ev' = Event("setFilter", NULL, NULL, TRUE)
    /\ UNCHANGED <<storage, route, net, home, disc>>

SetSearchQuery(q) ==
    /\ route = "account"
    /\ acct' = [acct EXCEPT !.searchQuery = q]
    /\ ev' = Event("setSearchQuery", NULL, NULL, TRUE)
    /\ UNCHANGED <<storage, route, net, home, disc>>

\* a logout that navigates and removes nothing
AcctLogoutKeepsSession(n, h, d, a) ==
    /\ storage' = storage
    /\ Apply(GoTo("auth", storage', route, h, d, a, n))

\* AccountPage.handleLogout: both slots are removed, then router.push("/")
AcctLogout(n, h, d, a) ==
    /\ storage' = EmptyStorage
    /\ Apply(GoTo("auth", storage', route, h, d, a, n))

\* the Log out button of AccountPage
AcctHandleLogout ==
    /\ route = "account"
    /\ AcctLogout(net, home, disc, acct)
    /\ ev' = Event("logout", NULL, NULL, TRUE)

\* fetchMovies up to its await, as run by a screen instance that is live or
\* not, with the sessionToken its closure holds
StartFetch(a, n, token, live) ==
    IF token = NULL THEN [acct |-> a, net |-> n]
    ELSE [acct |-> IF live THEN [a EXCEPT !.loadingMovies = TRUE, !.moviesError = NULL]
                   ELSE a,
          net |-> Append(n, [ListReq(token) EXCEPT !.live = live])]

\* the Refresh button
FetchMovies ==
    /\ route = "account"
    /\ acct.sessionToken # NULL
    /\ Len(net) < MaxPending
    /\ LET s == StartFetch(acct, net, acct.sessionToken, TRUE) IN
       /\ acct' = s.acct
       /\ net' = s.net
    /\ ev' = Sending("refresh", "list", NULL, NoBody)
    /\ UNCHANGED <<storage, route, home, disc>>

\* posterUrl.trim() || null
PosterField(text) == IF Trim(text) = <<>> THEN Null ELSE Val(Trim(text))

\* !title.trim()
TitleMissing(a) == Trim(a.title) = <<>>

\* the rating check left out
RatingMissingNever(a) == FALSE

\* status === "HAVE_WATCHED" with !rating
RatingMissing(a) == a.status = "HAVE_WATCHED" /\ a.rating = Null

\* handleAddMovie up to its await
HandleAddMovie ==
    /\ FormShown
    /\ IF acct.sessionToken = NULL
       THEN /\ acct' = [acct EXCEPT !.moviesError = LOGIN_FIRST_MSG]
            /\ net' = net
            /\ ev' = Event("addMovie", "create", "no-session", TRUE)
       ELSE IF TitleMissing(acct)
       THEN /\ UNCHANGED <<acct, net>>
            /\ ev' = Event("addMovie", "create", "no-title", TRUE)
       ELSE IF RatingMissing(acct)
       THEN /\ UNCHANGED <<acct, net>>
            /\ ev' = Event("addMovie", "create", "no-rating", TRUE)
       ELSE /\ Len(net) < MaxPending
            /\ acct' = [acct EXCEPT !.moviesError = NULL]
            /\ net' = Append(net, Req("create", "acct", acct.sessionToken, <<>>))
            /\ ev' = Sending("addMovie", "create", NULL,
                   IF acct.status = "HAVE_WATCHED"
                   THEN Body(Val(Trim(acct.title)), acct.status, acct.rating,
                             ReviewField(acct.review), PosterField(acct.posterUrl))
                   ELSE Body(Val(Trim(acct.title)), acct.status, Absent, Absent,
                             PosterField(acct.posterUrl)))
    /\ UNCHANGED <<storage, route, home, disc>>

\* updateMovieStatus up to its await; the row's button always asks for
\* PLAN_TO_WATCH
UpdateMovieStatus(movie, newStatus) ==
    /\ route = "account"
    /\ movie \in Shown
    /\ IF acct.sessionToken = NULL
       THEN /\ acct' = [acct EXCEPT !.moviesError = LOGIN_FIRST_MSG]
            /\ net' = net
            /\ ev' = Event("updateStatus", "status", "no-session", TRUE)
       ELSE /\ Len(net) < MaxPending
            /\ acct' = [acct EXCEPT !.moviesError = NULL]
            /\ net' = Append(net, Req("status", "acct", acct.sessionToken, <<>>))
            /\ ev' = Sending("updateStatus", "status", movie.id,
                             Body(Absent, newStatus, Absent, Absent, Absent))
    /\ UNCHANGED <<storage, route, home, disc>>

\* an invalid answer to the prompt clears the rating, as on Discovery
AcctRatingValueCleared(movie, ratingInput) ==
    IF ratingInput # Cancelled /\ Trim(ratingInput[1]) # <<>>
    THEN LET parsed == Number(Trim(ratingInput[1])) IN
         IF ~parsed.nan /\ parsed.tenths >= Num(1) /\ parsed.tenths <= Num(5)
         THEN Val(parsed.tenths)
         ELSE Null
    ELSE movie.rating

\* ratingValue of AccountPage.markWatched after the rating prompt
AcctRatingValue(movie, ratingInput) ==
    IF ratingInput # Cancelled /\ Trim(ratingInput[1]) # <<>>
    THEN LET parsed == Number(Trim(ratingInput[1])) IN
         IF ~parsed.nan /\ parsed.tenths >= Num(1) /\ parsed.tenths <= Num(5)
         THEN Val(parsed.tenths)
         ELSE movie.rating
    ELSE movie.rating

\* AccountPage.markWatched up to its await
AcctMarkWatched(movie, ratingInput, reviewInput) ==
    /\ route = "account"
    /\ movie \in Shown
    /\ IF acct.sessionToken = NULL
       THEN /\ acct' = [acct EXCEPT !.moviesError = LOGIN_FIRST_MSG]
            /\ net' = net
            /\ ev' = Event("markWatched", "edit", "no-session", TRUE)
       ELSE /\ Len(net) < MaxPending
            /\ LET ratingValue == AcctRatingValue(movie, ratingInput)
                   reviewText == IF reviewInput # Cancelled THEN reviewInput[1]
                                 ELSE IF movie.review = Null THEN <<>> ELSE movie.review[2]
               IN  ev' = Asked(Sending("markWatched", "edit", movie.id,
                                       Body(Absent, "HAVE_WATCHED", ratingValue,
                                            ReviewField(reviewText), Absent)),
                               ratingInput)
            /\ net' = Append(net, Req("edit", "acct", acct.sessionToken, <<>>))
            /\ acct' = [acct EXCEPT !.moviesError = NULL]
    /\ UNCHANGED <<storage, route, home, disc>>

ConfirmAnswer(confirmed) == IF confirmed THEN "OK" ELSE "Cancel"

\* the answer to confirm() ignored
DeleteDeclinedNever(confirmed) == FALSE

\* !confirm("Delete this movie?")
DeleteDeclined(confirmed) == ~confirmed

\* deleteMovie up to its await; confirmed is the answer to confirm()
DeleteMovie(movie, confirmed) ==
    /\ route = "account"
    /\ movie \in Shown
    /\ IF acct.sessionToken = NULL
       THEN /\ acct' = [acct EXCEPT !.moviesError = LOGIN_FIRST_MSG]
            /\ net' = net
            /\ ev' = Asked(Event("delete", "delete", "no-session", TRUE), NULL)
       ELSE IF DeleteDeclined(confirmed)
       THEN /\ UNCHANGED <<acct, net>>
            /\ ev' = Asked(Event("delete", "delete", "declined", TRUE), ConfirmAnswer(confirmed))
       ELSE /\ Len(net) < MaxPending
            /\ acct' = [acct EXCEPT !.moviesError = NULL]
            /\ net' = Append(net, Req("delete", "acct", acct.sessionToken, <<>>))
            /\ ev' = Asked(Sending("delete", "delete", movie.id, NoBody),
                           ConfirmAnswer(confirmed))
    /\ UNCHANGED <<storage, route, home, disc>>

\* the requests in flight once the list fetch n[i] has been answered: the
\* list fetches the same mounted screen issued before it are now late
Overtaken(n, i, outcome) ==
    [j \in 1..Len(n) |->
        IF /\ outcome = "ok" /\ n[i].live
           /\ j < i /\ n[j].kind = "list" /\ n[j].live
        THEN [n[j] EXCEPT !.late = TRUE]
        ELSE n[j]]

\* the rest of fetchMovies once GET /movies has settled
ListRespond(i, outcome, data) ==
    /\ i \in 1..Len(net)
    /\ net[i].kind = "list"
    /\ LET r == net[i]
           rest == Remove(Overtaken(net, i, outcome), i)
           \* finally { setLoadingMovies(false) }
           settled(a) == IF r.live THEN [a EXCEPT !.loadingMovies = FALSE] ELSE acct
       IN  /\ ev' = [Event("response", "list", outcome, r.live) EXCEPT !.late = r.late]
           /\ CASE outcome = "401" ->
                    AcctLogout(rest, home, disc, settled(acct))
                [] outcome = "err" ->
                    /\ acct' = settled([acct EXCEPT !.moviesError = HTTP_MSG])
                    /\ net' = rest
                    /\ UNCHANGED <<storage, route, home, disc>>
                [] outcome = "throw" ->
                    /\ acct' = settled([acct EXCEPT !.moviesError = THROWN_MSG])
                    /\ net' = rest
                    /\ UNCHANGED <<storage, route, home, disc>>
                [] outcome = "ok" ->
                    /\ acct' = settled([acct EXCEPT !.movies = data])
                    /\ net' = rest
                    /\ UNCHANGED <<storage, route, home, disc>>

\* the form fields after a successful create
ResetForm(a) ==
    [a EXCEPT !.title = <<>>, !.status = "PLAN_TO_WATCH", !.rating = Null,
              !.review = <<>>, !.posterUrl = <<>>]

\* the refetch left out
RefetchSkipped(a, n, r) == [acct |-> a, net |-> n]

\* await fetchMovies() at the end of a mutation handler whose request was r
Refetch(a, n, r) == StartFetch(a, n, r.token, r.live)

\* the failure swallowed
FailedSilently(a, msg) == a

\* catch (err) { setMoviesError(err.message ?? ...) } of a mutation handler
Failed(a, msg) == [a EXCEPT !.moviesError = msg]

\* the rest of handleAddMovie, updateMovieStatus, markWatched and
\* deleteMovie once the request has settled; a success ends in fetchMovies()
MutationRespond(i, outcome) ==
    /\ i \in 1..Len(net)
    /\ net[i].kind \in {"create", "status", "edit", "delete"}
    /\ LET r == net[i]
           rest == Remove(net, i)
           on(a) == IF r.live THEN a ELSE acct
       IN  /\ ev' = Event("response", r.kind, outcome, r.live)
           /\ CASE outcome = "401" ->
                    AcctLogout(rest, home, disc, acct)
                [] outcome = "err" ->
                    /\ acct' = on(Failed(acct, HTTP_MSG))
                    /\ net' = rest
                    /\ UNCHANGED <<storage, route, home, disc>>
                [] outcome = "throw" ->
                    /\ acct' = on(Failed(acct, THROWN_MSG))
                    /\ net' = rest
                    /\ UNCHANGED <<storage, route, home, disc>>
                [] outcome = "ok" ->
                    LET s == Refetch(on(IF r.kind = "create" THEN ResetForm(acct) ELSE acct),
                                     rest, r)
                    IN  /\ acct' = s.acct
                        /\ net' = s.net
                        /\ UNCHANGED <<storage, route, home, disc>>

-----------------------------------------------------------------------------
(* What the user types and what the service answers *)

TitleInputs == {<<>>, <<" ">>, <<"a">>}
PosterInputs == {<<>>, <<"p">>}
ReviewTexts == {<<>>, <<"o", "k">>}
Statuses == {"PLAN_TO_WATCH", "HAVE_WATCHED"}
Filters == {"ALL", "PLAN_TO_WATCH", "HAVE_WATCHED"}
\* the options of the rating select
RatingChoices == {Null} \cup {Val(Num(k)) : k \in 1..5}

M1 == Movie("m1", <<"a">>, "PLAN_TO_WATCH", Null, Null)
M2 == Movie("m2", <<"B">>, "HAVE_WATCHED", Val(Num(4)), Val(<<"o", "k">>))

AuthTokens == Tokens \cup {NULL, ""}

\* what a login answer carries when the visitor may already have held the
\* session t1: a new token, or none
LoginTokens == {"t2", NULL}

-----------------------------------------------------------------------------
(* The client as a whole: every screen, every request and every answer,    *)
(* with one sample of each text the user can type.                         *)

SessionListBodies == {<<>>, <<M2>>}
SessionRatingsBodies == {<<>>, <<Summary(INCEPTION, 4, 10)>>}

Next ==
    \/ SetUsername(<<"u">>)
    \/ SetPassword(<<"p">>)
    \/ ToggleAuthMode
    \/ HandleAuthSubmit
    \/ \E i \in 1..Len(net), o \in Outcomes, e \in BOOLEAN, t \in LoginTokens :
          AuthRespond(i, o, e, t)
    \/ DiscHandleLogout
    \/ \E t \in {"discover", "account"} : Navigate(t)
    \/ AddToList(DISCOVER_MOVIES[1])
    \/ DiscMarkWatched(DISCOVER_MOVIES[1], Typed(<<"3">>), Cancelled)
    \/ \E i \in 1..Len(net), o \in Outcomes : DiscRespond(i, o)
    \/ \E i \in 1..Len(net), o \in Outcomes, d \in SessionRatingsBodies :
          RatingsRespond(i, o, d)
    \/ SetTitle(<<"a">>)
    \/ AcctHandleLogout
    \/ FetchMovies
    \/ HandleAddMovie
    \/ \E m \in Shown : UpdateMovieStatus(m, "PLAN_TO_WATCH")
    \/ \E m \in Shown : AcctMarkWatched(m, Cancelled, Cancelled)
    \/ \E m \in Shown, c \in BOOLEAN : DeleteMovie(m, c)
    \/ \E i \in 1..Len(net), o \in Outcomes, d \in SessionListBodies :
          ListRespond(i, o, d)
    \/ \E i \in 1..Len(net), o \in Outcomes : MutationRespond(i, o)

Spec == Init /\ [][Next]_vars

-----------------------------------------------------------------------------
(* The Discovery screen of a signed-in user, with every card of the        *)
(* catalog.                                                                *)

InitCards ==
    /\ storage = StoreSession("t1", <<"u">>)
    /\ ev = Event("open", NULL, NULL, TRUE)
    /\ LET w == MountDiscover(storage, <<>>) IN
       /\ route = w.route
       /\ home = w.home
       /\ disc = w.disc
       /\ acct = w.acct
       /\ net = w.net

NextCards ==
    \/ \E m \in Catalog : AddToList(m)
    \/ \E m \in Catalog : DiscMarkWatched(m, Typed(<<"3">>), Cancelled)
    \/ \E i \in 1..Len(net), o \in Outcomes : DiscRespond(i, o)
    \/ \E i \in 1..Len(net), o \in Outcomes, d \in SessionRatingsBodies :
          RatingsRespond(i, o, d)
    \/ DiscHandleLogout

SpecCards == InitCards /\ [][NextCards]_vars

-----------------------------------------------------------------------------
(* The two mark-watched flows, with every answer to the two prompts.       *)

WatchListBodies == {<<>>, <<M1>>, <<M2>>}

InitWatch ==
    /\ storage = StoreSession("t1", <<"u">>)
    /\ ev = Event("open", NULL, NULL, TRUE)
    /\ \E entry \in {"discover", "account"} :
          LET w == IF entry = "discover" THEN MountDiscover(storage, <<>>)
                   ELSE MountAccount(storage, <<>>)
          IN  /\ route = w.route
              /\ home = w.home
              /\ disc = w.disc
              /\ acct = w.acct
              /\ net = w.net

NextWatch ==
    \/ \E t \in {"discover", "account"} : Navigate(t)
    \/ \E m \in Catalog, ri \in RatingInputs, rv \in ReviewInputs :
          DiscMarkWatched(m, ri, rv)
    \/ \E m \in Shown, ri \in RatingInputs, rv \in ReviewInputs :
          AcctMarkWatched(m, ri, rv)
    \/ \E i \in 1..Len(net), o \in Outcomes : DiscRespond(i, o)
    \/ \E i \in 1..Len(net), o \in Outcomes, d \in SessionRatingsBodies :
          RatingsRespond(i, o, d)
    \/ \E i \in 1..Len(net), o \in Outcomes, d \in WatchListBodies :
          ListRespond(i, o, d)
    \/ \E i \in 1..Len(net), o \in Outcomes : MutationRespond(i, o)

SpecWatch == InitWatch /\ [][NextWatch]_vars

-----------------------------------------------------------------------------
(* The same program opened on what an earlier visit, or the user, left in  *)
(* localStorage: each of the two slots may be there or not.                *)

StorageStates ==
    [token : {NoItem, Item("t1")}, user : {NoItem, Item(<<"u">>)}]

InitGuard ==
    /\ storage \in StorageStates
    /\ ev = Event("open", NULL, NULL, TRUE)
    /\ \E entry \in {"auth", "discover", "account"} :
          LET w == CASE entry = "auth" -> MountHome(storage, <<>>)
                     [] entry = "discover" -> MountDiscover(storage, <<>>)
                     [] entry = "account" -> MountAccount(storage, <<>>)
          IN  /\ route = w.route
              /\ home = w.home
              /\ disc = w.disc
              /\ acct = w.acct
              /\ net = w.net

SpecGuard == InitGuard /\ [][Next]_vars

-----------------------------------------------------------------------------
(* The Auth screen, with every text the user can type into the form.       *)

InitAuth ==
    /\ storage = EmptyStorage
    /\ ev = Event("open", NULL, NULL, TRUE)
    /\ route = "auth"
    /\ home = HomeInit
    /\ disc = DiscInit
    /\ acct = AcctInit
    /\ net = <<>>

NextAuth ==
    \/ \E v \in UserInputs : SetUsername(v)
    \/ \E v \in PassInputs : SetPassword(v)
    \/ ToggleAuthMode
    \/ HandleAuthSubmit
    \/ \E i \in 1..Len(net), o \in Outcomes, e \in BOOLEAN, t \in AuthTokens :
          AuthRespond(i, o, e, t)
    \/ \E i \in 1..Len(net), o \in Outcomes, d \in SessionRatingsBodies :
          RatingsRespond(i, o, d)
    \/ DiscHandleLogout

SpecAuth == InitAuth /\ [][NextAuth]_vars

-----------------------------------------------------------------------------
(* The Account screen of a signed-in user, with every value of the create  *)
(* form.                                                                   *)

InitAccount ==
    /\ storage = StoreSession("t1", <<"u">>)
    /\ ev = Event("open", NULL, NULL, TRUE)
    /\ LET w == MountAccount(storage, <<>>) IN
       /\ route = w.route
       /\ home = w.home
       /\ disc = w.disc
       /\ acct = w.acct
       /\ net = w.net

NextAccount ==
    \/ \E v \in TitleInputs : SetTitle(v)
    \/ \E v \in PosterInputs : SetPosterUrl(v)
    \/ \E v \in Statuses : SetStatus(v)
    \/ \E v \in RatingChoices : SetRating(v)
    \/ \E v \in ReviewTexts : SetReview(v)
    \/ HandleAddMovie
    \/ \E i \in 1..Len(net), o \in Outcomes, d \in SessionListBodies :
          ListRespond(i, o, d)
    \/ \E i \in 1..Len(net), o \in Outcomes : MutationRespond(i, o)

SpecAccount == InitAccount /\ [][NextAccount]_vars

-----------------------------------------------------------------------------
(* The list of the Account screen under every filter and searched text.    *)

SearchAlphabet == {"b", "B", " ", "P"}

RECURSIVE Texts(_)
Texts(n) ==
    IF n = 0 THEN {<<>>}
    ELSE Texts(n - 1) \cup {Append(t, c) : t \in Texts(n - 1), c \in SearchAlphabet}

FilterMovies ==
    {Movie("m", t, st, Null, rv) :
        t \in {<<"B">>, <<"x">>}, st \in Statuses, rv \in {Null, Val(<<"p", "B">>)}}

RECURSIVE ListsUpTo(_, _)
ListsUpTo(pool, n) ==
    IF n = 0 THEN {<<>>}
    ELSE ListsUpTo(pool, n - 1) \cup {Append(l, m) : l \in ListsUpTo(pool, n - 1), m \in pool}

SearchTexts == Texts(MaxText)
FilterListBodies == ListsUpTo(FilterMovies, MaxMovies)

NextFilter ==
    \/ \E f \in Filters : SetFilter(f)
    \/ \E q \in SearchTexts : SetSearchQuery(q)
    \/ \E i \in 1..Len(net), o \in Outcomes, d \in FilterListBodies :
          ListRespond(i, o, d)

SpecFilter == InitAccount /\ [][NextFilter]_vars

-----------------------------------------------------------------------------
(* The rating badges of Discovery under every ratings answer.              *)

InitRatings ==
    /\ storage = StoreSession("t1", <<"u">>)
    /\ ev = Event("open", NULL, NULL, TRUE)
    /\ LET w == MountDiscover(storage, <<>>) IN
       /\ route = w.route
       /\ home = w.home
       /\ disc = w.disc
       /\ acct = w.acct
       /\ net = w.net

RatingSummaries ==
    {Summary(t, r, c) : t \in {INCEPTION, <<"I", "n">>},
                        r \in (1 - RoundedSlack)..(5 + RoundedSlack), c \in {0, 3}}

RatingsBodies == ListsUpTo(RatingSummaries, MaxRatings)

NextRatings ==
    \E i \in 1..Len(net), o \in Outcomes, d \in RatingsBodies :
        RatingsRespond(i, o, d)

SpecRatings == InitRatings /\ [][NextRatings]_vars

-----------------------------------------------------------------------------
(* Properties *)

\* the requests that carry the session token
AuthedKinds == {"list", "add", "watch", "create", "status", "edit", "delete"}

\* C1, as stated: after the answer to any call (login, register, ratings,
\* list, create, update, delete) with status 401 has been handled, both
\* storage slots are empty and the Auth screen is the mounted screen.
C1_Original ==
    (ev.op = "response" /\ ev.outcome = "401") =>
        (storage = EmptyStorage /\ route = "auth")

\* C1, amended: handling a 401 answer to a call that carries the session
\* token (list, create, update, delete, Discovery's add and mark-watched)
\* leaves both storage slots empty and the Auth screen mounted; handling a
\* 401 answer to login, register or list ratings leaves storage and the
\* mounted screen as they were.
C1_Unauthorized ==
    [][(ev'.op = "response" /\ ev'.outcome = "401") =>
          IF ev'.kind \in AuthedKinds
          THEN storage' = EmptyStorage /\ route' = "auth"
          ELSE storage' = storage /\ route' = route]_vars

C1_Witness ==
    /\ ev.op = "response" /\ ev.outcome = "401" /\ ev.kind = "create" /\ ev.live
    /\ storage = EmptyStorage /\ route = "auth"

\* C2: in every reachable state the token slot and the username slot of
\* storage are both set or both empty.
C2_SlotsTogether == (storage.token = NoItem) <=> (storage.user = NoItem)

C2_Witness ==
    /\ ev.op = "response" /\ ev.kind = "login" /\ ev.outcome = "ok"
    /\ storage.token # NoItem /\ storage.user # NoItem

\* C3: a submit of the Auth form, in either mode, with a username or a
\* password that is empty after trimming sends no request, sets the
\* required-fields error and leaves the mode, the loading flag and the
\* session storage unchanged.
C3_BlankSubmit ==
    [][(ev'.op = "submit" /\ (Trim(home.username) = <<>> \/ Trim(home.password) = <<>>)) =>
          /\ net' = net
          /\ home'.authError = REQUIRED_MSG
          /\ home'.authMode = home.authMode
          /\ home'.authLoading = home.authLoading
          /\ storage' = storage]_vars

C3_Witness ==
    /\ ev.op = "submit" /\ ev.kind = "register"
    /\ home.username # <<>> /\ Trim(home.username) = <<>> /\ Trim(home.password) # <<>>
    /\ home.authError = REQUIRED_MSG

\* C4: handling a success answer to a login whose body has no sessionToken
\* field writes nothing to storage, does not navigate to Discovery and
\* shows the no-session-token error.
C4_NoToken ==
    [][(ev'.op = "response" /\ ev'.kind = "login" /\ ev'.outcome = "ok"
            /\ ev'.token = NULL) =>
          /\ storage' = storage
          /\ route' = route /\ route' # "discover"
          /\ home'.authError = NO_TOKEN_MSG]_vars

C4_Witness ==
    /\ ev.op = "response" /\ ev.kind = "login" /\ ev.outcome = "ok" /\ ev.token = NULL
    /\ storage = EmptyStorage /\ route = "auth" /\ home.authError = NO_TOKEN_MSG

\* C5: handling the answer to a register submission, whatever the answer,
\* writes nothing to storage and does not navigate; on a success answer the
\* mode becomes login and the account-created message is shown.
C5_RegisterNoSession ==
    [][(ev'.op = "response" /\ ev'.kind = "register") =>
          /\ storage' = storage
          /\ route' = route /\ route' # "discover"
          /\ ev'.outcome = "ok" =>
                (home'.authMode = "login" /\ home'.infoMessage = CREATED_MSG)]_vars

C5_Witness ==
    /\ ev.op = "response" /\ ev.kind = "register" /\ ev.outcome = "ok"
    /\ ev.token \in Tokens
    /\ storage = EmptyStorage /\ route = "auth"
    /\ home.authMode = "login" /\ home.infoMessage = CREATED_MSG

\* C6: a submit of the create form with a title that is empty after
\* trimming, or with status HAVE_WATCHED and no rating selected, sends no
\* request and leaves the form fields and the cached list unchanged.
C6_BlockedCreate ==
    [][(ev'.op = "addMovie"
            /\ (Trim(acct.title) = <<>>
                    \/ (acct.status = "HAVE_WATCHED" /\ acct.rating = Null))) =>
          /\ net' = net
          /\ acct'.title = acct.title
          /\ acct'.status = acct.status
          /\ acct'.rating = acct.rating
          /\ acct'.review = acct.review
          /\ acct'.posterUrl = acct.posterUrl
          /\ acct'.movies = acct.movies]_vars

C6_Witness ==
    /\ ev.op = "addMovie" /\ ev.outcome # "sent"
    /\ Trim(acct.title) # <<>> /\ acct.status = "HAVE_WATCHED" /\ acct.rating = Null
    /\ acct.review # <<>>

\* C7: a delete whose confirmation prompt is declined sends no request (no
\* DELETE, no list refetch) and leaves the cached list, the error message
\* and the session storage unchanged.
C7_DeclinedDelete ==
    [][(ev'.op = "delete" /\ ev'.input = "Cancel") =>
          /\ net' = net
          /\ acct'.movies = acct.movies
          /\ acct'.moviesError = acct.moviesError
          /\ storage' = storage]_vars

C7_Witness ==
    /\ ev.op = "delete" /\ ev.input = "Cancel"
    /\ route = "account" /\ Len(acct.movies) > 0 /\ acct.moviesError # NULL

\* text q occurs in text s: s is some text, then q, then some text
C8_Occurs(q, s) ==
    \E a \in 0..Len(s) :
        /\ a + Len(q) <= Len(s)
        /\ \A j \in 1..Len(q) : s[a + j] = q[j]

C8_Kept(m) ==
    /\ acct.filter = "ALL" \/ m.status = acct.filter
    /\ LET q == ToLowerCase(Trim(acct.searchQuery)) IN
       \/ q = <<>>
       \/ C8_Occurs(q, ToLowerCase(m.title))
       \/ C8_Occurs(q, ToLowerCase(StatusText(m.status)))
       \/ C8_Occurs(q, ToLowerCase(IF m.review = Null THEN <<>> ELSE m.review[2]))

\* C8: the displayed list is exactly the cached records, in their order,
\* whose status equals the filter (any status under ALL) and for which the
\* trimmed, lower-cased search text is empty or occurs in the lower-cased
\* title, status literal or review (no review counting as empty).
C8_FilterSearch ==
    LET shown == FilteredMovies(acct.movies, acct.filter, acct.searchQuery)
        kept == {i \in 1..Len(acct.movies) : C8_Kept(acct.movies[i])}
    IN  /\ Len(shown) = Cardinality(kept)
        /\ \A i \in kept :
              shown[Cardinality({j \in kept : j <= i})] = acct.movies[i]

C8_Witness ==
    LET shown == FilteredMovies(acct.movies, acct.filter, acct.searchQuery) IN
    /\ Len(acct.movies) = 2 /\ Len(shown) = 1
    /\ acct.filter = "ALL"
    /\ acct.searchQuery = <<" ", "P">>
    /\ shown[1] = acct.movies[2]
    /\ shown[1].status = "HAVE_WATCHED" /\ shown[1].title = <<"x">>

C9_Clamp(r) == IF r < 1 THEN 1 ELSE IF r > 5 THEN 5 ELSE r

\* C9: for every integer rounded rating r of a ratings answer (values
\* below 1 and above 5 among them), renderStars
\* gives clamp(r,1,5) filled glyphs followed by 5 - clamp(r,1,5) empty
\* glyphs, five glyphs in all.
C9_Stars ==
    \A i \in 1..Len(disc.ratings) :
        LET r == disc.ratings[i].roundedRating
            stars == RenderStars(r)
        IN  /\ Len(stars) = 5
            /\ \A k \in 1..5 : stars[k] = IF k <= C9_Clamp(r) THEN FILLED ELSE EMPTY

C9_Witness ==
    /\ Len(disc.ratings) = 2
    /\ disc.ratings[1].roundedRating < 1
    /\ disc.ratings[2].roundedRating > 5
    /\ RenderStars(disc.ratings[1].roundedRating) = <<FILLED, EMPTY, EMPTY, EMPTY, EMPTY>>

\* C10: a catalog entry has a rating badge only if the first summary of the
\* ratings answer with exactly its title has ratingCount > 0; an entry
\* whose matched summary has ratingCount 0, and an entry with no summary
\* of its title, has no badge.
C10_Badge ==
    \A k \in 1..Len(DISCOVER_MOVIES) :
        LET movie == DISCOVER_MOVIES[k]
            hits == {i \in 1..Len(disc.ratings) : disc.ratings[i].title = movie.title}
            first(i) == i \in hits /\ \A j \in hits : i <= j
            badge == Badge(disc.ratings, movie)
        IN  /\ badge # <<>> =>
                  \E i \in hits : first(i) /\ disc.ratings[i].ratingCount > 0
            /\ (hits = {} \/ \E i \in hits : first(i) /\ disc.ratings[i].ratingCount = 0)
                  => badge = <<>>

C10_Witness ==
    /\ Len(disc.ratings) = 2
    /\ disc.ratings[1].title = INCEPTION /\ disc.ratings[1].ratingCount = 0
    /\ disc.ratings[2].title = INCEPTION /\ disc.ratings[2].ratingCount = 3
    /\ Badge(disc.ratings, DISCOVER_MOVIES[1]) = <<>>

\* the requests of the Account screen that change a record
MutationKinds == {"create", "status", "edit", "delete"}

\* C11: the step that handles a success answer to a create, status update,
\* mark-watched edit or delete issues a GET of the list with the token of
\* that request, and no step of a mutation handler changes the cached list
\* of a mounted Account screen: the list changes only when a list answer
\* is handled.
C11_RefetchAfterMutation ==
    [][/\ (ev'.op = "response" /\ ev'.kind \in MutationKinds /\ ev'.outcome = "ok") =>
            \E i \in 1..Len(net) :
                /\ net[i].kind = ev'.kind
                /\ net' = Append(Remove(net, i),
                                 [ListReq(net[i].token) EXCEPT !.live = net[i].live])
       /\ (ev'.kind \in MutationKinds /\ route' = "account") =>
            acct'.movies = acct.movies]_vars

C11_Witness ==
    /\ ev.op = "response" /\ ev.kind = "delete" /\ ev.outcome = "ok" /\ ev.live
    /\ route = "account" /\ Len(acct.movies) > 0 /\ acct.loadingMovies
    /\ net # <<>> /\ net[Len(net)].kind = "list" /\ net[Len(net)].live

\* the requests of the Discovery cards still owned by the mounted screen
CardRequests ==
    {i \in 1..Len(net) : net[i].kind \in {"add", "watch"} /\ net[i].live}

\* C12: while an add-to-list or mark-watched request of catalog entry X is
\* in flight on the mounted Discovery screen, busyId is X (so both buttons
\* of X are disabled) and no second request of X is in flight.
C12_BusyGuard ==
    /\ \A i \in CardRequests : disc.busyId = net[i].id
    /\ \A i, j \in CardRequests : net[i].id = net[j].id => i = j

\* C13: a Discovery or Account screen never stays mounted while a slot of
\* the session is missing from storage (it has redirected to the Auth
\* screen), no screen holds a session token then, and every request in
\* flight that carries a token (list, create, update, delete) was issued
\* with a token read from a complete session, never with an unset one.
C13_SessionGuard ==
    /\ ~HasSession(storage) =>
          /\ route = "auth"
          /\ disc.sessionToken = NULL
          /\ acct.sessionToken = NULL
    /\ route = "discover" => disc.sessionToken # NULL
    /\ route = "account" => acct.sessionToken # NULL
    /\ \A i \in 1..Len(net) : net[i].kind \in AuthedKinds => net[i].token # NULL

\* Discovery was opened with the username slot missing: the visitor is on
\* the Auth screen, typing, and only the ratings fetch of the dead screen
\* is out
C13_Witness ==
    /\ storage.token # NoItem /\ storage.user = NoItem
    /\ route = "auth" /\ disc.sessionToken = NULL
    /\ home.username = <<"u">>
    /\ net = <<[RatingsReq EXCEPT !.live = FALSE]>>

\* C14: the step that handles a failure answer (a status that is neither
\* success nor 401, or a transport failure) to a create, status update,
\* mark-watched edit or delete only takes that request out of flight, so
\* nothing is resent and no list is fetched; the cached list, the session
\* slots and the route stay as they were, and the Account screen that
\* sent the request, if still mounted, shows an error message.
C14_MutationFailure ==
    [][(ev'.op = "response" /\ ev'.kind \in MutationKinds
            /\ ev'.outcome \in {"err", "throw"}) =>
          /\ \E i \in 1..Len(net) : net[i].kind = ev'.kind /\ net' = Remove(net, i)
          /\ acct'.movies = acct.movies
          /\ storage' = storage
          /\ route' = route
          /\ ev'.live => acct'.moviesError \in {HTTP_MSG, THROWN_MSG}]_vars

C14_Witness ==
    /\ ev.op = "response" /\ ev.kind = "delete" /\ ev.outcome = "err" /\ ev.live
    /\ route = "account" /\ Len(acct.movies) > 0 /\ acct.moviesError = HTTP_MSG
    /\ HasSession(storage) /\ net = <<>>

\* C15: the view mode of the Auth screen is login or register, and a step
\* that leaves the Auth screen mounted changes it only if the step is the
\* user's toggle or the handling of a success answer to a register
\* request, which sets it to login.
C15_ModeChanges ==
    [][/\ home'.authMode \in {"login", "register"}
       /\ (route = "auth" /\ route' = "auth" /\ home'.authMode # home.authMode) =>
             \/ ev'.op = "toggle"
             \/ /\ ev'.op = "response" /\ ev'.kind = "register" /\ ev'.outcome = "ok"
                /\ home'.authMode = "login"]_vars

\* a login request failed after the user had toggled to the register view
C15_Witness ==
    /\ ev.op = "response" /\ ev.kind = "login" /\ ev.outcome = "err" /\ ev.live
    /\ route = "auth" /\ home.authMode = "register" /\ home.authError # NULL

\* an answer to the rating prompt that is not a number, or a number
\* outside 1..5
InvalidRating(ratingInput) ==
    /\ ratingInput # Cancelled
    /\ Trim(ratingInput[1]) # <<>>
    /\ LET parsed == Number(Trim(ratingInput[1])) IN
          parsed.nan \/ parsed.tenths < Num(1) \/ parsed.tenths > Num(5)

\* C16, as stated: in both mark-watched flows an invalid answer to the
\* rating prompt still sends the request, with rating null.
C16_Original ==
    (ev.op = "markWatched" /\ ev.outcome = "sent" /\ InvalidRating(ev.input)) =>
        ev.body.rating = Null

\* C16: in both mark-watched flows a step in which the user gives an
\* invalid answer to the rating prompt still sends the request; on
\* Discovery it carries rating null, on the Account screen it carries the
\* rating the record already had (null when it had none).
C16_InvalidRating ==
    [][(ev'.op = "markWatched" /\ ev'.outcome # "no-session"
            /\ InvalidRating(ev'.input)) =>
          /\ ev'.outcome = "sent"
          /\ Len(net') = Len(net) + 1
          /\ net'[Len(net')].kind = ev'.kind
          /\ ev'.kind = "watch" => ev'.body.rating = Null
          /\ ev'.kind = "edit" =>
                \E m \in Shown : m.id = ev'.id /\ ev'.body.rating = m.rating]_vars

\* a rated record was edited with an out-of-range answer
C16_Witness ==
    /\ ev.op = "markWatched" /\ ev.kind = "edit" /\ ev.outcome = "sent"
    /\ ev.input = Typed(<<"9">>)
    /\ ev.body.rating = Val(Num(4))
    /\ net # <<>> /\ net[Len(net)].kind = "edit"

\* C17: the rating field of every create or update request that is sent
\* is absent, null or one of the integers 1..5.
C17_RatingDomain ==
    (ev.outcome = "sent" /\ ev.kind \in {"add", "watch", "create", "status", "edit"}) =>
        ev.body.rating \in {Absent, Null} \cup {Val(Num(k)) : k \in 1..5}

\* C18: when the answer that leaves no Account call pending is a success
\* answer to a list fetch, the list it installs is not that of a fetch
\* issued before one whose answer has already been installed: the cached
\* list is the data of the latest-issued fetch.
C18_LatestFetchWins ==
    (/\ ev.op = "response" /\ ev.kind = "list" /\ ev.outcome = "ok" /\ ev.live
     /\ route = "account"
     /\ \A i \in 1..Len(net) : ~(net[i].page = "acct" /\ net[i].live)) =>
        ~ev.late

\* C19: the step that handles the answer to a call whose screen has been
\* unmounted only takes the call out of flight: the state of every screen,
\* the session slots and the route stay as they were and nothing is sent.
C19_OrphanDiscarded ==
    [][(ev'.op = "response" /\ ~ev'.live) =>
          /\ storage' = storage
          /\ route' = route
          /\ home' = home /\ disc' = disc /\ acct' = acct
          /\ \E i \in 1..Len(net) : ~net[i].live /\ net' = Remove(net, i)]_vars

\* C20: a step that removes a stored session is a logout, or the handling
\* of a 401 answer to a request that was sent with the token of that
\* session.
C20_OwnTokenOnly ==
    [][(HasSession(storage) /\ ~HasSession(storage')) =>
          \/ ev'.op = "logout"
          \/ /\ ev'.op = "response" /\ ev'.outcome = "401"
             /\ \E i \in 1..Len(net) :
                   /\ net[i].kind = ev'.kind
                   /\ net[i].token = storage.token[1]
                   /\ net' \in {Remove(net, i), Orphan(Remove(net, i), PageOf(route))}]_vars

\* C21: the step that handles the answer to an add-to-list or mark-watched
\* request of the mounted Discovery screen leaves busyId null, whatever
\* the outcome (success, 401, other status, transport error); and in every
\* state in which no such request of the mounted screen is in flight
\* busyId is null, so no card is disabled by it.
C21_BusyCleared ==
    [][/\ (ev'.op = "response" /\ ev'.kind \in {"add", "watch"} /\ ev'.live) =>
             disc'.busyId = NULL
       /\ ~(\E i \in 1..Len(net') : net'[i].kind \in {"add", "watch"} /\ net'[i].live) =>
             /\ disc'.busyId = NULL
             /\ disc'.sessionToken # NULL => \A m \in Catalog : disc'.busyId # m.id]_vars

\* the last card request in flight failed: Discovery is still mounted and
\* no card is busy
C21_Witness ==
    /\ ev.op = "response" /\ ev.kind = "watch" /\ ev.outcome = "err" /\ ev.live
    /\ route = "discover" /\ disc.error = HTTP_MSG /\ disc.busyId = NULL
    /\ CardRequests = {}

====
